---- MODULE Spec2Model ----
(***************************************************************************)
(* icloud-to-slack (src/main.py): a batch job that scrapes a shared album, *)
(* posts the photos that are not in seen_photos.json to Slack (file        *)
(* upload, then webhook fallback) and rewrites seen_photos.json.           *)
(*                                                                         *)
(* A run of main() is a sequence of steps: MainCheckConfig, MainLoad,      *)
(* MainScrape, then one MainPost per new photo; the save that follows the  *)
(* loop is part of the MainPost of the last photo.  Runs follow each other *)
(* (the external scheduler); every network call and the scrape answer      *)
(* nondeterministically.                                                   *)
(***************************************************************************)
EXTENDS Integers, Sequences, FiniteSets, TLC

\* ------------------------------------------------------------------ bounds
\* Longest array / object found in seen_photos.json before the first run.
MaxFileLen == 2
\* Number of runs of main() the model follows.
MaxRuns == 3

\* ------------------------------------------------------------- identifiers
\* A photo identifier is a string (the CDN URL); here a sequence of character
\* codes, so that sorted() is a real lexicographic comparison.
Photos == { <<1>>, <<1, 2>>, <<2>> }

RECURSIVE StrLess(_, _)
\* Python's str.__lt__: lexicographic on the characters, a proper prefix first.
StrLess(s, t) ==
    IF t = <<>> THEN FALSE
    ELSE IF s = <<>> THEN TRUE
    ELSE IF Head(s) # Head(t) THEN Head(s) < Head(t)
    ELSE StrLess(Tail(s), Tail(t))

RECURSIVE sorted(_)
\* sorted(new_photos): the list of the set's elements in increasing order.
sorted(S) ==
    IF S = {} THEN <<>>
    ELSE LET m == CHOOSE x \in S : \A y \in S \ {x} : StrLess(x, y)
         IN  <<m>> \o sorted(S \ {m})

Range(s) == { s[i] : i \in 1..Len(s) }

\* list(photo_urls): a set becomes a list in an order the hash seed picks.
list(S) == { s \in [1..Cardinality(S) -> S] : Range(s) = S }

SeqsUpTo(S, n) == UNION { [1..k -> S] : k \in 0..n }

\* ------------------------------------------------------- seen_photos.json
\* What SEEN_FILE may hold: nothing (no file), blank text, text that is not
\* JSON, a JSON scalar (number, null, true), a JSON object (its keys in
\* items), or a JSON array (its elements in items).
NoFile      == [kind |-> "missing", items |-> <<>>]
BlankFile   == [kind |-> "blank",   items |-> <<>>]
InvalidFile == [kind |-> "invalid", items |-> <<>>]
ScalarFile  == [kind |-> "scalar",  items |-> <<>>]
ArrayFile(s)  == [kind |-> "array",  items |-> s]
ObjectFile(s) == [kind |-> "object", items |-> s]

FileContents ==
    {NoFile, BlankFile, InvalidFile, ScalarFile}
    \cup { ArrayFile(s) : s \in SeqsUpTo(Photos, MaxFileLen) }
    \cup { ObjectFile(s) : s \in { q \in SeqsUpTo(Photos, MaxFileLen) :
                                        Cardinality(Range(q)) = Len(q) /\ q # <<>> } }

\* load_seen_photos(): raised is TRUE when an exception leaves the function
\* (set(json.loads(content)) on a value that is not iterable is a TypeError,
\* which `except json.JSONDecodeError` does not catch).
load_seen_photos(f) ==
    CASE f.kind = "missing" -> [raised |-> FALSE, value |-> {}]
      [] f.kind = "blank"   -> [raised |-> FALSE, value |-> {}]
      [] f.kind = "invalid" -> [raised |-> FALSE, value |-> {}]
      [] f.kind = "scalar"  -> [raised |-> TRUE,  value |-> {}]
      [] OTHER              -> [raised |-> FALSE, value |-> Range(f.items)]

\* A faulty variant of the write below: the file is opened for appending, and
\* JSON text after JSON text is not JSON.
WriteFileAppend(old, text) ==
    IF old.kind \in {"missing", "blank"} THEN text ELSE InvalidFile
\* Line 41, open(SEEN_FILE, "w"): the file is truncated and then holds what
\* is written to it.
WriteFile(old, text) == text

\* save_seen_photos(photo_urls), lines 41-42: the texts json.dump may write;
\* (an array of the elements, in any order).
save_seen_photos(photo_urls) == { ArrayFile(s) : s \in list(photo_urls) }

\* ------------------------------------------------------------ post_to_slack
\* The answers the outside world gives to one post_to_slack call; "na" where
\* the call never asks.
\*   get     requests.get(image_url):       "200", "non200", "error" (raises)
\*   write   writing the chunks to the temporary file: "ok", "error" (raises)
\*   exif    Image.open/_getexif: "found" (metadata_text filled), "none",
\*           "error" (PIL missing or any exception)
\*   upload  requests.post(files.upload): "ok" (200, ok true), "notok" (200,
\*           ok false), "non200", "badjson" (200, .json() raises), "error"
\*   webhook what requests.post(SLACK_WEBHOOK) answers when it is called:
\*           "200", "non200", "error" (raises)
WebhookAnswers == {"200", "non200", "error"}

PostInputs(token) ==
    IF ~token
    THEN { [get |-> "na", write |-> "na", exif |-> "na", upload |-> "na", webhook |-> w] :
             w \in WebhookAnswers }
    ELSE { [get |-> g, write |-> "na", exif |-> "na", upload |-> "na", webhook |-> w] :
             g \in {"non200", "error"}, w \in WebhookAnswers }
         \cup
         { [get |-> "200", write |-> "error", exif |-> "na", upload |-> "na", webhook |-> w] :
             w \in WebhookAnswers }
         \cup
         { [get |-> "200", write |-> "ok", exif |-> e, upload |-> u, webhook |-> w] :
             e \in {"found", "none", "error"},
             u \in {"ok", "notok", "non200", "badjson", "error"},
             w \in WebhookAnswers }

\* The value of metadata_text after the EXIF block (lines 65-88).
ExtractMetadata(in) == IF in.exif = "found" THEN "text" ELSE "empty"

\* Lines 49-128, the `if SLACK_API_TOKEN:` block.  exit is how the block is
\* left: "true"/"false" for a return, "fall" for falling to the webhook.
\* temp is the temporary file: "none" (never created), "deleted", "left".
\* meta is metadata_text: "unset" (not in locals()), "empty", "text".
Tier1DownloadFailed(in) ==
    [exit |-> "false", get |-> TRUE, upload |-> FALSE, temp |-> "none", meta |-> "unset"]

\* A faulty variant of the handler below: it catches nothing, so the block is
\* left normally only when it raised nothing.
MetadataErrorNotCaught(in) == in.exif # "error"
\* Lines 87-88, `except (ImportError, Exception)`: every error of the EXIF
\* block is caught there.
MetadataErrorCaught(in) == TRUE

\* A faulty variant of the test below: the "ok" field is not looked at.
UploadStatusOnly(in) == in.upload \in {"ok", "notok"}
\* Lines 117-119: upload_response.status_code == 200 and .json().get("ok").
UploadSucceeded(in) == in.upload = "ok"

Tier1(in) ==
    CASE in.get = "error" ->
           [exit |-> "fall", get |-> TRUE, upload |-> FALSE, temp |-> "none", meta |-> "unset"]
      [] in.get = "non200" -> Tier1DownloadFailed(in)
      [] in.write = "error" ->
           [exit |-> "fall", get |-> TRUE, upload |-> FALSE, temp |-> "left", meta |-> "unset"]
      [] in.exif = "error" /\ ~MetadataErrorCaught(in) ->
           [exit |-> "fall", get |-> TRUE, upload |-> FALSE, temp |-> "left", meta |-> "empty"]
      [] in.upload = "error" ->
           [exit |-> "fall", get |-> TRUE, upload |-> TRUE, temp |-> "left",
            meta |-> ExtractMetadata(in)]
      [] UploadSucceeded(in) ->
           [exit |-> "true", get |-> TRUE, upload |-> TRUE, temp |-> "deleted",
            meta |-> ExtractMetadata(in)]
      [] OTHER ->
           [exit |-> "fall", get |-> TRUE, upload |-> TRUE, temp |-> "deleted",
            meta |-> ExtractMetadata(in)]

\* Lines 130-154: the webhook post; "raise" when requests.post raises, which
\* nothing around it catches.
Webhook(in) ==
    CASE in.webhook = "200"    -> "True"
      [] in.webhook = "non200" -> "False"
      [] OTHER                 -> "raise"

\* post_to_slack(image_url): ret is "True", "False" or "raise"; tier is the
\* tier that delivered (0: none); get/upload/webhook say which requests were
\* made; with_meta says whether the webhook message carried metadata_text.
post_to_slack(token, in) ==
    LET skipped == [exit |-> "fall", get |-> FALSE, upload |-> FALSE,
                    temp |-> "none", meta |-> "unset"]
        t1 == IF token THEN Tier1(in) ELSE skipped
    IN  IF t1.exit = "fall"
        THEN [ret |-> Webhook(in), tier |-> IF Webhook(in) = "True" THEN 2 ELSE 0,
              get |-> t1.get, upload |-> t1.upload, webhook |-> TRUE,
              temp |-> t1.temp, with_meta |-> (t1.meta = "text")]
        ELSE [ret |-> IF t1.exit = "true" THEN "True" ELSE "False",
              tier |-> IF t1.exit = "true" THEN 1 ELSE 0,
              get |-> t1.get, upload |-> t1.upload, webhook |-> FALSE,
              temp |-> t1.temp, with_meta |-> FALSE]

\* --------------------------------------------------------------------- main
VARIABLES
    seen_file,        \* the content of SEEN_FILE (seen_photos.json)
    pc,               \* where main() is: "idle" (no run), "load", "scrape", "post"
    ALBUM_URL,        \* the settings of the running process, TRUE when truthy
    SLACK_WEBHOOK,
    SLACK_API_TOKEN,
    seen,             \* main's local seen
    current,          \* main's local current
    queue,            \* what `for url in sorted(new_photos)` has still to visit
    success_count,
    \* what is observed of the current (or, when idle, the last) run
    outcome,          \* how the last run ended ("none" before the first)
    file_before,      \* the content of SEEN_FILE when the run started
    loaded,           \* load_seen_photos: "no" (not called), "ok", "raised"
    scraped,          \* run_scraper: "no" (not called), "ok", "failed"
    calls,            \* the post_to_slack calls of the run: <<[url, ret]>>
    writes,           \* the number of save_seen_photos calls of the run
    call,             \* a post_to_slack call observed alone, with its answers
    \* what is observed over all runs
    runs,             \* the number of runs started
    prev_run,         \* the run before this one: its snapshot and whether it posted
    delivered,        \* the photos some call has returned True for
    marked            \* the photos that failed in a run in which another succeeded

vars == <<seen_file, pc, ALBUM_URL, SLACK_WEBHOOK, SLACK_API_TOKEN, seen, current,
          queue, success_count, outcome, file_before, loaded, scraped, calls,
          writes, call, runs, prev_run, delivered, marked>>

env_vars  == <<ALBUM_URL, SLACK_WEBHOOK, SLACK_API_TOKEN>>
hist_vars == <<delivered, marked>>

NoCall == [url |-> <<>>, token |-> FALSE,
           in  |-> [get |-> "na", write |-> "na", exif |-> "na", upload |-> "na",
                    webhook |-> "na"],
           res |-> [ret |-> "none", tier |-> 0, get |-> FALSE, upload |-> FALSE,
                    webhook |-> FALSE, temp |-> "none", with_meta |-> FALSE]]

NoRun == [outcome |-> "none", scraped |-> FALSE, current |-> {}, success |-> FALSE]

\* The photos a call of the run returned True for (success_count counts them).
Succeeded(cs) == { cs[i].url : i \in { j \in 1..Len(cs) : cs[j].ret = "True" } }
\* The photos a call of the run returned False for.
Failed(cs)    == { cs[i].url : i \in { j \in 1..Len(cs) : cs[j].ret = "False" } }
Called(cs)    == { cs[i].url : i \in 1..Len(cs) }

Init ==
    /\ seen_file \in FileContents
    /\ pc = "idle"
    /\ ALBUM_URL = FALSE /\ SLACK_WEBHOOK = FALSE /\ SLACK_API_TOKEN = FALSE
    /\ seen = {} /\ current = {} /\ queue = <<>> /\ success_count = 0
    /\ outcome = "none"
    /\ file_before = seen_file
    /\ loaded = "no" /\ scraped = "no" /\ calls = <<>> /\ writes = 0
    /\ call = NoCall
    /\ runs = 0
    /\ prev_run = NoRun
    /\ delivered = {} /\ marked = {}

\* A faulty variant of the check below: only ALBUM_URL is tested.
RequiredSettingMissingAlbumOnly(album, webhook) == ~album
\* Lines 195 and 199: `if not ALBUM_URL` / `if not SLACK_WEBHOOK`.
RequiredSettingMissing(album, webhook) == ~album \/ ~webhook

\* A faulty variant of the difference below: the symmetric difference.
NewPhotosSymmetric(cur, old) == (cur \ old) \cup (old \ cur)
\* A faulty variant of the difference below: every photo of the album is new.
NewPhotosAll(cur, old) == cur
\* Line 209: new_photos = current - seen.
NewPhotos(cur, old) == cur \ old

\* A faulty variant of the loop's end below: the loop ends after any call.
LoopFinishedAlways(rest) == TRUE
\* Lines 214-216: the for loop ends when sorted(new_photos) is exhausted.
LoopFinished(rest) == rest = <<>>

\* A faulty variant of the argument below: only the photos just delivered.
SaveArgumentDelivered(cur, ok) == ok
\* Line 219: save_seen_photos(current), whatever the calls returned.
SaveArgument(cur, ok) == cur

\* A faulty variant of the test below: one success is not enough.
ShouldSaveSeveral(count) == count > 1
\* A faulty variant of the test below: the file is written after every loop.
ShouldSaveAlways(count) == count >= 0
\* Line 218: `if success_count > 0`.
ShouldSave(count) == count > 0

\* A process starts: the settings are read from the environment (lines 11-20)
\* and main() checks the required ones (lines 194-205).
MainCheckConfig(album, webhook, token) ==
    /\ pc = "idle"
    /\ runs < MaxRuns
    /\ runs' = runs + 1
    /\ prev_run' = IF runs = 0 THEN NoRun
                   ELSE [outcome |-> outcome,
                         scraped |-> scraped = "ok",
                         current |-> IF scraped = "ok" THEN current ELSE {},
                         success |-> Succeeded(calls) # {}]
    /\ ALBUM_URL' = album /\ SLACK_WEBHOOK' = webhook /\ SLACK_API_TOKEN' = token
    /\ seen' = {} /\ current' = {} /\ queue' = <<>> /\ success_count' = 0
    /\ file_before' = seen_file
    /\ loaded' = "no" /\ scraped' = "no" /\ calls' = <<>> /\ writes' = 0
    /\ IF RequiredSettingMissing(album, webhook)
       THEN pc' = "idle" /\ outcome' = "config_error"
       ELSE pc' = "load" /\ outcome' = "running"
    /\ UNCHANGED <<seen_file, call, hist_vars>>

\* Line 207: seen = load_seen_photos().
MainLoad ==
    /\ pc = "load"
    /\ LET r == load_seen_photos(seen_file)
       IN  IF r.raised
           THEN /\ loaded' = "raised" /\ pc' = "idle" /\ outcome' = "load_error"
                /\ seen' = seen
           ELSE /\ loaded' = "ok" /\ pc' = "scrape" /\ outcome' = outcome
                /\ seen' = r.value
    /\ UNCHANGED <<seen_file, env_vars, current, queue, success_count, file_before,
                   scraped, calls, writes, call, runs, prev_run, hist_vars>>

\* Lines 208-211 and 223-224 when run_scraper() returns the photos of `album`.
MainScrape(album) ==
    /\ pc = "scrape"
    /\ scraped' = "ok"
    /\ current' = album
    /\ queue' = sorted(NewPhotos(album, seen))
    /\ success_count' = 0
    /\ IF NewPhotos(album, seen) = {}
       THEN pc' = "idle" /\ outcome' = "no_new"
       ELSE pc' = "post" /\ outcome' = outcome
    /\ UNCHANGED <<seen_file, env_vars, seen, file_before, loaded, calls, writes,
                   call, runs, prev_run, hist_vars>>

\* Line 208 when run_scraper() raises (page unreachable, browser failure).
MainScrapeFails ==
    /\ pc = "scrape"
    /\ scraped' = "failed"
    /\ pc' = "idle" /\ outcome' = "scrape_error"
    /\ UNCHANGED <<seen_file, env_vars, seen, current, queue, success_count,
                   file_before, loaded, calls, writes, call, runs, prev_run,
                   hist_vars>>

\* Lines 214-216: one iteration of the loop; after the last one, lines
\* 218-222.  An exception leaving post_to_slack leaves main() too.
MainPost(in) ==
    /\ pc = "post" /\ queue # <<>>
    /\ LET url    == Head(queue)
           r      == post_to_slack(SLACK_API_TOKEN, in)
           calls2 == Append(calls, [url |-> url, ret |-> r.ret])
           count2 == IF r.ret = "True" THEN success_count + 1 ELSE success_count
       IN  /\ calls' = calls2
           /\ delivered' = IF r.ret = "True" THEN delivered \cup {url} ELSE delivered
           /\ marked' = IF Succeeded(calls2) # {}
                        THEN marked \cup { u \in Failed(calls2) : Succeeded(calls2) \ {u} # {} }
                        ELSE marked
           /\ IF r.ret = "raise"
              THEN /\ pc' = "idle" /\ outcome' = "post_error"
                   /\ UNCHANGED <<queue, success_count, seen_file, writes>>
              ELSE /\ success_count' = count2
                   /\ queue' = Tail(queue)
                   /\ IF ~LoopFinished(Tail(queue))
                      THEN /\ pc' = "post" /\ outcome' = outcome
                           /\ UNCHANGED <<seen_file, writes>>
                      ELSE /\ pc' = "idle"
                           /\ IF ShouldSave(count2)
                              THEN /\ seen_file' \in { WriteFile(seen_file, t) :
                                                        t \in save_seen_photos(SaveArgument(current, Succeeded(calls2))) }
                                   /\ writes' = writes + 1
                                   /\ outcome' = "posted"
                              ELSE /\ UNCHANGED <<seen_file, writes>>
                                   /\ outcome' = "none_posted"
    /\ UNCHANGED <<env_vars, seen, current, file_before, loaded, scraped, call, runs,
                   prev_run>>

Next ==
    \/ \E album \in BOOLEAN, webhook \in BOOLEAN, token \in BOOLEAN :
          MainCheckConfig(album, webhook, token)
    \/ MainLoad
    \/ \E album \in SUBSET Photos : MainScrape(album)
    \/ MainScrapeFails
    \/ \E in \in PostInputs(SLACK_API_TOKEN) : MainPost(in)

Spec == Init /\ [][Next]_vars

\* ------------------------------------------------- post_to_slack on its own
\* One call of post_to_slack(url), with or without SLACK_API_TOKEN, under
\* every combination of answers; the rest of the program stands still.
PostInit ==
    /\ Init
    /\ seen_file = NoFile

PostCall(url, token, in) ==
    /\ call = NoCall
    /\ call' = [url |-> url, token |-> token, in |-> in, res |-> post_to_slack(token, in)]
    /\ UNCHANGED <<seen_file, pc, env_vars, seen, current, queue, success_count,
                   outcome, file_before, loaded, scraped, calls, writes, runs,
                   prev_run, hist_vars>>

PostNext ==
    \E url \in Photos, token \in BOOLEAN :
        \E in \in PostInputs(token) : PostCall(url, token, in)

PostSpec == PostInit /\ [][PostNext]_vars

\* ------------------------------------------------ the state file on its own
\* save_seen_photos(x) for any set x over any file, and load_seen_photos();
\* current holds the last x saved, file_before the content it replaced.
StoreSave(x) ==
    /\ pc = "idle" /\ runs = 0
    /\ file_before' = seen_file
    /\ seen_file' \in { WriteFile(seen_file, t) : t \in save_seen_photos(x) }
    /\ current' = x
    /\ writes' = 1
    /\ loaded' = "no" /\ seen' = {}
    /\ UNCHANGED <<pc, env_vars, queue, success_count, outcome, scraped, calls, call,
                   runs, prev_run, hist_vars>>

StoreLoad ==
    /\ pc = "idle" /\ runs = 0
    /\ loaded = "no"
    /\ LET r == load_seen_photos(seen_file)
       IN  /\ loaded' = IF r.raised THEN "raised" ELSE "ok"
           /\ seen' = r.value
    /\ UNCHANGED <<seen_file, pc, env_vars, current, queue, success_count, outcome,
                   file_before, scraped, calls, writes, call, runs, prev_run,
                   hist_vars>>

StoreNext ==
    \/ \E x \in SUBSET Photos : StoreSave(x)
    \/ StoreLoad

StoreSpec == Init /\ [][StoreNext]_vars

\* The run started from a SEEN_FILE that was absent or empty.
FreshInit == Init /\ seen_file \in {NoFile, BlankFile}
SpecFresh == FreshInit /\ [][Next]_vars

\* ------------------------------------------------------------------ claims
\* The identifiers a file records: the elements of its array.
PersistedIds(f) == IF f.kind = "array" THEN Range(f.items) ELSE {}
RunEnded == pc = "idle" /\ runs > 0

\* C1: over any sequence of runs, snapshots and call outcomes, no photo is
\* delivered (post_to_slack returning True) more than once.
C1_NeverDeliveredTwice ==
    [][\A p \in Succeeded(calls') \ Succeeded(calls) : p \notin delivered]_vars

\* C2: starting from an absent or empty SEEN_FILE, every identifier the file
\* records has been delivered (checked under SpecFresh).
C2_SeenImpliesDelivered == PersistedIds(seen_file) \subseteq delivered

\* C3: if some post_to_slack call of the run succeeded, then at the end of
\* the run SEEN_FILE records exactly the run's snapshot.
C3_SuccessPersistsSnapshot ==
    (RunEnded /\ Succeeded(calls) # {}) =>
        (seen_file.kind = "array" /\ Range(seen_file.items) = current)

\* C4: a run with no new photo, or in which no call returned True, never
\* calls save_seen_photos and leaves SEEN_FILE as it found it.
C4_NoSuccessNoWrite ==
    (runs > 0 /\ (NewPhotos(current, seen) = {} \/ Succeeded(calls) = {})) =>
        (writes = 0 /\ seen_file = file_before)

\* C4 witness (scenario B): the file records a photo, the album holds it and
\* a new one, the new one fails, the run has ended.
C4_Witness ==
    /\ RunEnded /\ outcome = "none_posted"
    /\ PersistedIds(file_before) # {}
    /\ Failed(calls) # {} /\ Succeeded(calls) = {}
    /\ seen_file = file_before

\* C5: no exception leaves post_to_slack: every call returns True or False
\* and no run is ended by one.
C5_PostNeverRaises ==
    /\ \A i \in 1..Len(calls) : calls[i].ret \in {"True", "False"}
    /\ outcome # "post_error"

\* C6: with SLACK_API_TOKEN set, whenever the upload tier does not deliver and
\* the webhook answers 200, the webhook is posted to and the call returns True
\* (checked under PostSpec).
C6_TierFallback ==
    (call.token /\ call.res.ret # "none" /\ call.res.tier # 1 /\ call.in.webhook = "200") =>
        (call.res.webhook /\ call.res.ret = "True")

\* C7: a photo that failed in a run in which another photo succeeded is never
\* passed to post_to_slack by a later run.
C7_MarkedNeverRetried ==
    [][\A p \in Called(calls') \ Called(calls) : p \notin marked]_vars

\* C8: when a run follows a run on the same snapshot in which nothing was
\* delivered, it calls post_to_slack on no identifier SEEN_FILE records, and
\* only on identifiers of the snapshot.
C8_Idempotence ==
    (runs >= 2 /\ prev_run.scraped /\ ~prev_run.success
        /\ scraped = "ok" /\ current = prev_run.current) =>
        /\ Called(calls) \cap PersistedIds(file_before) = {}
        /\ Called(calls) \subseteq current
        /\ Range(queue) \cap PersistedIds(file_before) = {}

\* C8 witness: such a second run, on a snapshot that holds a recorded photo
\* and a new one, has made a call.
C8_Witness ==
    /\ runs >= 2 /\ prev_run.scraped /\ ~prev_run.success
    /\ scraped = "ok" /\ current = prev_run.current
    /\ calls # <<>>
    /\ PersistedIds(file_before) \cap current # {}

\* C9: a run with ALBUM_URL or SLACK_WEBHOOK missing reads nothing, scrapes
\* nothing, calls post_to_slack on nothing and leaves SEEN_FILE alone; a run
\* whose scrape fails ends there, with no call and SEEN_FILE left alone.
C9_AbortLeavesState ==
    /\ (runs > 0 /\ (~ALBUM_URL \/ ~SLACK_WEBHOOK)) =>
          /\ pc = "idle" /\ loaded = "no" /\ scraped = "no"
          /\ calls = <<>> /\ writes = 0 /\ seen_file = file_before
    /\ scraped = "failed" =>
          /\ pc = "idle"
          /\ calls = <<>> /\ writes = 0 /\ seen_file = file_before

\* C9 witness: a run aborted for the missing SLACK_WEBHOOK, then a run whose
\* scrape failed, over a file that records photos.
C9_Witness ==
    /\ prev_run.outcome = "config_error"
    /\ scraped = "failed" /\ pc = "idle"
    /\ PersistedIds(seen_file) # {}

\* C10: load_seen_photos returns the empty set, and does not raise, for every
\* SEEN_FILE that is absent, blank, or anything but a JSON array.
C10_LoadTolerant ==
    (loaded # "no" /\ file_before.kind # "array") => (loaded = "ok" /\ seen = {})

\* C11: save_seen_photos(x) replaces the file and round-trips: over any
\* previous content, a load after save(x) returns exactly x, so nothing the
\* previous content recorded outside x remains (checked under StoreSpec).
C11_SaveLoadRoundTrip ==
    (writes = 1 /\ loaded # "no") =>
        /\ loaded = "ok" /\ seen = current
        /\ PersistedIds(seen_file) \cap (PersistedIds(file_before) \ current) = {}

\* C11 witness: a non-empty x was saved over a file recording a photo outside
\* x, and the file was loaded again.
C11_Witness ==
    /\ writes = 1 /\ loaded = "ok" /\ current # {}
    /\ PersistedIds(file_before) \ current # {}

\* C12: the identifiers a run hands to post_to_slack (those called and those
\* still to visit) are exactly the snapshot minus the loaded seen set: none
\* is in the seen set, each is in the snapshot, and none is left out.
C12_NewIsDifference ==
    scraped = "ok" =>
        \A p \in Photos :
            (p \in Called(calls) \cup Range(queue)) <=> (p \in current /\ p \notin seen)

\* C12 witness: the seen set and the snapshot overlap, each holds a photo the
\* other lacks, and a call has been made.
C12_Witness ==
    /\ scraped = "ok" /\ calls # <<>>
    /\ seen \cap current # {} /\ seen \ current # {} /\ current \ seen # {}

\* C13: when a run has ended after its scrape, post_to_slack has been called
\* exactly once on every new photo, in strictly increasing order of the
\* identifier, whatever the calls before answered.
C13_AllNewInOrder ==
    (RunEnded /\ scraped = "ok") =>
        /\ Called(calls) = current \ seen
        /\ Len(calls) = Cardinality(current \ seen)
        /\ \A i \in 1..Len(calls), j \in 1..Len(calls) :
              i < j => StrLess(calls[i].url, calls[j].url)

\* C14: after a post_to_slack call has returned or raised, the temporary
\* file it created for the image no longer exists (checked under PostSpec).
C14_TempFileReleased == call.res.temp # "left"

\* C15: the call delivers through the upload exactly when the upload answers
\* 200 with ok true, and then makes no webhook post; the image GET and the
\* upload are made only with SLACK_API_TOKEN set (checked under PostSpec).
C15_TiersInOrder ==
    call.res.ret # "none" =>
        /\ (call.res.tier = 1) <=> (call.in.upload = "ok")
        /\ call.res.tier = 1 => (call.res.ret = "True" /\ ~call.res.webhook)
        /\ (call.res.get \/ call.res.upload) => call.token
        /\ ~(call.in.upload = "ok" /\ call.res.webhook)

\* C15 witness: the upload delivered while the webhook would have answered
\* 200 too, and was not posted to.
C15_Witness ==
    /\ call.token /\ call.res.tier = 1 /\ call.res.ret = "True"
    /\ call.in.webhook = "200" /\ ~call.res.webhook

\* C16: with the answers of the image GET, the upload and the webhook fixed,
\* the call returns the same result through the same tier whether the EXIF
\* block finds metadata, finds none or fails (checked under PostSpec).
C16_MetadataNoEffect ==
    call.in.exif # "na" =>
        \A e \in {"found", "none", "error"} :
            LET other == post_to_slack(call.token, [call.in EXCEPT !.exif = e])
            IN  /\ other.ret = call.res.ret
                /\ other.tier = call.res.tier
                /\ other.webhook = call.res.webhook

\* C16 witness: the EXIF block failed, the upload did not deliver and the
\* webhook did.
C16_Witness ==
    /\ call.in.exif = "error" /\ call.in.upload = "notok"
    /\ call.res.tier = 2 /\ call.res.ret = "True"

\* The run went through its whole loop: it scraped, and no call raised.
RunCompleted ==
    /\ RunEnded /\ scraped = "ok"
    /\ \A i \in 1..Len(calls) : calls[i].ret \in {"True", "False"}

\* C17: in a run SEEN_FILE is read before the scrape and written at most
\* once, and only when post_to_slack has returned for every new photo: the
\* file differs from what the run found only after that write.
C17_ReadFirstWriteLast ==
    /\ scraped # "no" => loaded = "ok"
    /\ writes <= 1
    /\ seen_file # file_before => writes = 1
    /\ writes = 1 =>
          /\ pc = "idle" /\ queue = <<>>
          /\ Called(calls) = current \ seen
          /\ \A i \in 1..Len(calls) : calls[i].ret \in {"True", "False"}

\* C17 witness: the file was written in a run of several calls, one of which
\* failed.
C17_Witness ==
    /\ writes = 1 /\ Len(calls) >= 2 /\ Failed(calls) # {}
    /\ seen_file # file_before

\* C18: when a run has gone through its whole loop, every photo a call of
\* the run returned True for is recorded in SEEN_FILE.
C18_DeliveredIsRecorded ==
    RunCompleted => Succeeded(calls) \subseteq PersistedIds(seen_file)

\* C18 witness: a completed run in which one photo was delivered and another
\* failed.
C18_Witness ==
    /\ RunCompleted
    /\ Cardinality(Succeeded(calls)) = 1 /\ Failed(calls) # {}

\* C19: a run that follows a completed run with a delivery, on the same
\* snapshot, finds no new photo: no call, no write, the file left as it was.
C19_FixedPoint ==
    (runs >= 2 /\ prev_run.outcome = "posted" /\ prev_run.success
        /\ scraped = "ok" /\ current = prev_run.current) =>
        /\ pc = "idle" /\ queue = <<>> /\ calls = <<>>
        /\ writes = 0 /\ seen_file = file_before

\* C19 witness: such a second run has ended, on a snapshot holding a photo
\* whose delivery had failed.
C19_Witness ==
    /\ runs >= 2 /\ prev_run.outcome = "posted" /\ prev_run.success
    /\ scraped = "ok" /\ current = prev_run.current
    /\ pc = "idle" /\ marked \cap current # {}

====
